---------------------------- MODULE Spec2Model ----------------------------
(***************************************************************************)
(* QEM mesh simplification: Mesh::buildMesh (Mesh.h), computeCost,         *)
(* computeQuadric, computeAllQuadrics, edgeCollapse (QEM.cpp) and the      *)
(* scheduler meshSimplify with its priority queue (main.cpp).              *)
(*                                                                         *)
(* Numbers.  The program computes in IEEE floats; the model computes in    *)
(* exact rationals <<n, d>> (d > 0, lowest terms), so rounding is left out *)
(* while every comparison, branch and formula of the code is kept.         *)
(* A plane equation is normalize(cross) and is irrational in general; it   *)
(* is kept as the unnormalised 4-vector "dir" together with the squared    *)
(* length "norm2" of its normal, the plane being dir / sqrt(norm2).  The   *)
(* only use the code makes of a plane is outerProduct(p, p), which is      *)
(* dir * dir^T / norm2 and rational.                                       *)
(*                                                                         *)
(* Indices.  std::vector index i of the program is index i + 1 here        *)
(* (sequences are 1-based); -1 ("not found") of the program is 0 here.     *)
(***************************************************************************)
EXTENDS Integers, Sequences, FiniteSets, Bags, TLC

---------------------------------------------------------------------------
(* Exact rational arithmetic *)

RECURSIVE GCD(_, _)
GCD(a, b) == IF b = 0 THEN a ELSE GCD(b, a % b)

Abs(x) == IF x < 0 THEN -x ELSE x

Rat(n, d) ==
  LET s == IF d < 0 THEN -1 ELSE 1
      g == GCD(Abs(n), Abs(d))
  IN  IF n = 0 THEN <<0, 1>> ELSE <<(s * n) \div g, (s * d) \div g>>

R0 == <<0, 1>>
R1 == <<1, 1>>
RHalf == <<1, 2>>

RInt(k) == <<k, 1>>

RAdd(x, y) ==
  IF x[1] = 0 THEN y
  ELSE IF y[1] = 0 THEN x
  ELSE LET g == GCD(x[2], y[2])
       IN  Rat(x[1] * (y[2] \div g) + y[1] * (x[2] \div g), (x[2] \div g) * y[2])

RNeg(x) == <<-x[1], x[2]>>

RSub(x, y) == RAdd(x, RNeg(y))

RMul(x, y) ==
  IF x[1] = 0 \/ y[1] = 0 THEN R0
  ELSE LET g1 == GCD(Abs(x[1]), y[2])
           g2 == GCD(Abs(y[1]), x[2])
       IN  <<(x[1] \div g1) * (y[1] \div g2), (x[2] \div g2) * (y[2] \div g1)>>

RDiv(x, y) == RMul(x, IF y[1] < 0 THEN <<-y[2], -y[1]>> ELSE <<y[2], y[1]>>)

RAbs(x) == <<Abs(x[1]), x[2]>>

RLt(x, y) == RSub(x, y)[1] < 0

RLe(x, y) == RSub(x, y)[1] <= 0

\* floor(d / 10^k), by k successive integer divisions
RECURSIVE DivPow10(_, _)
DivPow10(d, k) == IF k = 0 THEN d ELSE DivPow10(d \div 10, k - 1)

\* x > 10^(-k) for a rational x >= 0:  n / d > 10^(-k)  <=>  n > floor(d / 10^k)
GtPow10Neg(x, k) == x[1] > DivPow10(x[2], k)

---------------------------------------------------------------------------
(* glm vectors and matrices over the rationals *)

V3Add(a, b) == <<RAdd(a[1], b[1]), RAdd(a[2], b[2]), RAdd(a[3], b[3])>>

V3Sub(a, b) == <<RSub(a[1], b[1]), RSub(a[2], b[2]), RSub(a[3], b[3])>>

V3Scale(a, s) == <<RMul(a[1], s), RMul(a[2], s), RMul(a[3], s)>>

V3Dot(a, b) == RAdd(RAdd(RMul(a[1], b[1]), RMul(a[2], b[2])), RMul(a[3], b[3]))

V3Cross(a, b) ==
  << RSub(RMul(a[2], b[3]), RMul(a[3], b[2])),
     RSub(RMul(a[3], b[1]), RMul(a[1], b[3])),
     RSub(RMul(a[1], b[2]), RMul(a[2], b[1])) >>

\* glm::mat4(0.0f)
ZeroMat == [i \in 1..4 |-> [j \in 1..4 |-> R0]]

MatAdd(A, B) == [i \in 1..4 |-> [j \in 1..4 |-> RAdd(A[i][j], B[i][j])]]

\* determinant of the 3x3 matrix given by its three rows
Det3(r1, r2, r3) ==
  RAdd(RSub(RMul(r1[1], RSub(RMul(r2[2], r3[3]), RMul(r2[3], r3[2]))),
            RMul(r1[2], RSub(RMul(r2[1], r3[3]), RMul(r2[3], r3[1])))),
       RMul(r1[3], RSub(RMul(r2[1], r3[2]), RMul(r2[2], r3[1]))))

\* component i of the matrix-vector product Q * x
MatVecRow(Q, x, i) ==
  RAdd(RAdd(RMul(Q[i][1], x[1]), RMul(Q[i][2], x[2])),
       RAdd(RMul(Q[i][3], x[3]), RMul(Q[i][4], x[4])))

\* glm::dot of two 4-vectors
V4Dot(a, b) ==
  RAdd(RAdd(RMul(a[1], b[1]), RMul(a[2], b[2])), RAdd(RMul(a[3], b[3]), RMul(a[4], b[4])))

\* glm::dot(x, Q * x) for a 4-vector x
QuadForm4(Q, x) ==
  V4Dot(x, <<MatVecRow(Q, x, 1), MatVecRow(Q, x, 2), MatVecRow(Q, x, 3), MatVecRow(Q, x, 4)>>)

\* glm::dot(x, Q * x) for x = (v, 1)
QuadForm(Q, v) == QuadForm4(Q, <<v[1], v[2], v[3], R1>>)

---------------------------------------------------------------------------
(* Program constants *)

\* QEM.h: const float QEM_EPSILON = 1e-10f, as the exponent of 10^(-10)
QEM_EPSILON_EXP == 10

\* Mesh.h: const float GRID_SIZE = 0.001f, as the denominator of 1/1000
GRID_SIZE_INV == 1000

\* Mesh.h: const float EPSILON = 0.0001f; its square is 1 / 10^8
EPSILON_SQ_INV == 100000000

\* main.cpp: if (count >= originalVertexCount / 100) break;
BUDGET_DIVISOR == 100

---------------------------------------------------------------------------
(* Records of the mesh *)

\* an Edge's optimalPosition before the first computeCost (never read by the code)
Unset == <<>>

\* Vertex::Vertex
Vertex(pos, norm, uv, col) ==
  [position |-> pos, normal |-> norm, texCoord |-> uv, color |-> col,
   quadric |-> ZeroMat, isDeleted |-> FALSE]

\* Edge::Edge
Edge(vertex1, vertex2) ==
  [v1 |-> vertex1, v2 |-> vertex2, cost |-> R0, optimalPosition |-> Unset,
   isBoundary |-> FALSE, isDirty |-> FALSE, isDeleted |-> FALSE]

\* Face::computeNormal: the plane normalize(cross(pos2-pos1, pos3-pos1)), d = -dot(normal, pos1),
\* kept as dir = (cross, -dot(cross, pos1)) and norm2 = |cross|^2
computeNormal(pos1, pos2, pos3) ==
  LET c == V3Cross(V3Sub(pos2, pos1), V3Sub(pos3, pos1))
  IN  [dir |-> <<c[1], c[2], c[3], RNeg(V3Dot(c, pos1))>>, norm2 |-> V3Dot(c, c)]

\* Face::Face
Face(idx1, idx2, idx3, pos1, pos2, pos3) ==
  [v1 |-> idx1, v2 |-> idx2, v3 |-> idx3,
   planeEquation |-> computeNormal(pos1, pos2, pos3), isDeleted |-> FALSE]

\* glm::outerProduct(p, p) for the plane p = dir / sqrt(norm2)
outerProduct(p) ==
  [i \in 1..4 |-> [j \in 1..4 |-> RDiv(RMul(p.dir[i], p.dir[j]), p.norm2)]]

---------------------------------------------------------------------------
(* QEM.cpp *)

\* one candidate of the singular branch with its cost
candidateAt(Q, pos) == [isMax |-> FALSE, minCost |-> QuadForm(Q, pos), optimalPos |-> pos]

\* keepBetter with <= in place of <
keepBetterOrEqual(best, cand) ==
  IF best.isMax \/ RLe(cand.minCost, best.minCost) THEN cand ELSE best

\* "if (cost < minCost) { minCost = cost; optimalPos = candidate; }": minCost
\* starts at FLT_MAX (isMax), which every cost of the model is below
keepBetter(best, cand) ==
  IF best.isMax \/ RLt(cand.minCost, best.minCost) THEN cand ELSE best

\* the singular branch of computeCost: candidates v1, v2, midpoint in this
\* order; a candidate replaces the best so far only when strictly cheaper
bestCandidate(Q, p1, p2) ==
  keepBetter(keepBetter(keepBetter([isMax |-> TRUE, minCost |-> R0, optimalPos |-> Unset],
                                   candidateAt(Q, p1)),
                        candidateAt(Q, p2)),
             candidateAt(Q, V3Scale(V3Add(p1, p2), RHalf)))

\* column k of the 3x3 block of Q replaced by the right-hand side b = -Q[.][4]
\* (Cramer's rule for A * x = b)
cramerRow(Q, r, k) ==
  <<IF k = 1 THEN RNeg(Q[r][4]) ELSE Q[r][1],
    IF k = 2 THEN RNeg(Q[r][4]) ELSE Q[r][2],
    IF k = 3 THEN RNeg(Q[r][4]) ELSE Q[r][3]>>

cramerDet(Q, k) == Det3(cramerRow(Q, 1, k), cramerRow(Q, 2, k), cramerRow(Q, 3, k))

\* glm::inverse(Q_bar) * (0, 0, 0, 1): Q_bar is Q with bottom row (0,0,0,1), so
\* the product solves A * x = -b, w = 1, for the upper-left 3x3 block A of Q
\* and b = Q[.][4]; det is det(Q_bar) = det(A)
solveOptimal(Q, det) ==
  <<RDiv(cramerDet(Q, 1), det), RDiv(cramerDet(Q, 2), det), RDiv(cramerDet(Q, 3), det)>>

\* glm::determinant(Q_bar)
determinantQbar(Q) ==
  Det3(<<Q[1][1], Q[1][2], Q[1][3]>>, <<Q[2][1], Q[2][2], Q[2][3]>>,
       <<Q[3][1], Q[3][2], Q[3][3]>>)

\* the two branches of computeCost on the summed quadric Q
optimum(Q, det, p1, p2) ==
  IF GtPow10Neg(RAbs(det), QEM_EPSILON_EXP)
  THEN candidateAt(Q, solveOptimal(Q, det))
  ELSE bestCandidate(Q, p1, p2)

\* "edge.optimalPosition = glm::vec3(optimalPos); edge.cost = minCost;"
storeCost(edge, best) == [edge EXCEPT !.optimalPosition = best.optimalPos, !.cost = best.minCost]

\* computeCost on the summed quadric Q of the endpoints
costOfQuadric(edge, Q, p1, p2) == storeCost(edge, optimum(Q, determinantQbar(Q), p1, p2))

\* computeCost: the edge with cost and optimalPosition recomputed
computeCost(edge, vs) ==
  costOfQuadric(edge, MatAdd(vs[edge.v1].quadric, vs[edge.v2].quadric),
                vs[edge.v1].position, vs[edge.v2].position)

\* the loop of computeQuadric over faces[i..], adding Kp of each live face that contains the vertex
RECURSIVE sumQuadric(_, _, _, _)
sumQuadric(vertexIndex, fs, i, acc) ==
  IF i > Len(fs) THEN acc
  ELSE LET face == fs[i]
       IN  IF ~face.isDeleted /\ (face.v1 = vertexIndex \/ face.v2 = vertexIndex \/ face.v3 = vertexIndex)
           THEN sumQuadric(vertexIndex, fs, i + 1, MatAdd(acc, outerProduct(face.planeEquation)))
           ELSE sumQuadric(vertexIndex, fs, i + 1, acc)

\* computeQuadric without the reset of the quadric to the zero matrix
computeQuadricNoReset(vertexIndex, vs, fs) ==
  [vs EXCEPT ![vertexIndex].quadric = sumQuadric(vertexIndex, fs, 1, vs[vertexIndex].quadric)]

\* computeQuadric: the vertex array with vertexIndex's quadric rebuilt
computeQuadric(vertexIndex, vs, fs) ==
  [vs EXCEPT ![vertexIndex].quadric = sumQuadric(vertexIndex, fs, 1, ZeroMat)]

\* the face loop of computeAllQuadrics from faces[i] on
RECURSIVE accumulateQuadrics(_, _, _)
accumulateQuadrics(vs, fs, i) ==
  IF i > Len(fs) THEN vs
  ELSE LET face == fs[i]
           Kp == outerProduct(face.planeEquation)
           a == [vs EXCEPT ![face.v1].quadric = MatAdd(@, Kp)]
           b == [a EXCEPT ![face.v2].quadric = MatAdd(@, Kp)]
           c == [b EXCEPT ![face.v3].quadric = MatAdd(@, Kp)]
       IN  IF face.isDeleted THEN accumulateQuadrics(vs, fs, i + 1)
           ELSE accumulateQuadrics(c, fs, i + 1)

\* initializeQuadrics: computeQuadric on every vertex that is not tombstoned;
\* each call writes the quadric of its own vertex only and reads the faces only
initializeQuadrics(vs, fs) ==
  [i \in DOMAIN vs |-> IF vs[i].isDeleted THEN vs[i] ELSE computeQuadric(i, vs, fs)[i]]

\* computeAllQuadrics without the first loop, which zeroes every quadric
computeAllQuadricsNoReset(vs, fs) == accumulateQuadrics(vs, fs, 1)

\* computeAllQuadrics
computeAllQuadrics(vs, fs) ==
  accumulateQuadrics([i \in DOMAIN vs |-> [vs[i] EXCEPT !.quadric = ZeroMat]], fs, 1)

\* integer square root: the largest r with r * r <= n
RECURSIVE ISqrt(_, _)
ISqrt(n, r) == IF (r + 1) * (r + 1) > n THEN r ELSE ISqrt(n, r + 1)

\* glm::length from the squared length: exact when the rational is a square,
\* otherwise rounded down to a multiple of 1/1000
RSqrt(x) ==
  LET rn == ISqrt(x[1], 0)
      rd == ISqrt(x[2], 0)
  IN  IF rn * rn = x[1] /\ rd * rd = x[2] THEN Rat(rn, rd)
      ELSE Rat(ISqrt((x[1] * 1000000) \div x[2], 0), 1000)

\* glm::clamp(t, 0, 1)
clamp01(t) == IF RLt(t, R0) THEN R0 ELSE IF RLt(R1, t) THEN R1 ELSE t

\* glm::mix(a, b, t) = a * (1 - t) + b * t, componentwise
mix(a, b, t) == [i \in DOMAIN a |-> RAdd(RMul(a[i], RSub(R1, t)), RMul(b[i], t))]

\* remapEdge with the test of the second endpoint left out
remapEdgeFirstEndpoint(e, v1, v2) ==
  LET a == IF e.v1 = v2 THEN [e EXCEPT !.v1 = v1] ELSE e
  IN  IF e.isDeleted THEN e
      ELSE IF a.v1 = a.v2 THEN [a EXCEPT !.isDeleted = TRUE]
      ELSE a

\* remapEdge tombstoning every edge it remapped
remapEdgeDropRemapped(e, v1, v2) ==
  LET a == IF e.v1 = v2 THEN [e EXCEPT !.v1 = v1] ELSE e
      b == IF a.v2 = v2 THEN [a EXCEPT !.v2 = v1] ELSE a
  IN  IF e.isDeleted THEN e
      ELSE IF b # e THEN [b EXCEPT !.isDeleted = TRUE]
      ELSE b

\* Step 4 of edgeCollapse for one edge record: remap v2 -> v1, tombstone a degenerate edge
remapEdge(e, v1, v2) ==
  LET a == IF e.v1 = v2 THEN [e EXCEPT !.v1 = v1] ELSE e
      b == IF a.v2 = v2 THEN [a EXCEPT !.v2 = v1] ELSE a
  IN  IF e.isDeleted THEN e
      ELSE IF b.v1 = b.v2 THEN [b EXCEPT !.isDeleted = TRUE]
      ELSE b

\* remapFace with the degenerate test left out
remapFaceKeepDegenerate(face, v1, v2) ==
  LET a == IF face.v1 = v2 THEN [face EXCEPT !.v1 = v1] ELSE face
      b == IF a.v2 = v2 THEN [a EXCEPT !.v2 = v1] ELSE a
      c == IF b.v3 = v2 THEN [b EXCEPT !.v3 = v1] ELSE b
  IN  IF face.isDeleted THEN face ELSE c

\* remapFace tombstoning every face that contained v2
remapFaceDropTouching(face, v1, v2) ==
  LET a == IF face.v1 = v2 THEN [face EXCEPT !.v1 = v1] ELSE face
      b == IF a.v2 = v2 THEN [a EXCEPT !.v2 = v1] ELSE a
      c == IF b.v3 = v2 THEN [b EXCEPT !.v3 = v1] ELSE b
  IN  IF face.isDeleted THEN face
      ELSE IF c # face THEN [c EXCEPT !.isDeleted = TRUE]
      ELSE c

\* Step 5 of edgeCollapse for one face record: remap v2 -> v1, tombstone a degenerate face
remapFace(face, v1, v2) ==
  LET a == IF face.v1 = v2 THEN [face EXCEPT !.v1 = v1] ELSE face
      b == IF a.v2 = v2 THEN [a EXCEPT !.v2 = v1] ELSE a
      c == IF b.v3 = v2 THEN [b EXCEPT !.v3 = v1] ELSE b
  IN  IF face.isDeleted THEN face
      ELSE IF c.v1 = c.v2 \/ c.v2 = c.v3 \/ c.v3 = c.v1 THEN [c EXCEPT !.isDeleted = TRUE]
      ELSE c

\* Step 8 of edgeCollapse: the interpolation parameter t, from the positions
\* stored on v1 and v2 at that point and the collapse position
interpolationT(v1Pos, v2Pos, newPosition) ==
  LET d == V3Sub(v1Pos, v2Pos)
      totalDist2 == V3Dot(d, d)
      n == V3Sub(newPosition, v1Pos)
  IN  IF GtPow10Neg(totalDist2, 2 * QEM_EPSILON_EXP)
      THEN clamp01(RDiv(RSqrt(V3Dot(n, n)), RSqrt(totalDist2)))
      ELSE RHalf

\* mergeVertices with the tombstone of v2 left out
mergeVerticesNoTombstone(vs, v1, v2, newPosition) ==
  [vs EXCEPT ![v1].position = newPosition,
             ![v2].position = newPosition]

\* mergeVertices tombstoning v1 in place of v2
mergeVerticesTombstoneFirst(vs, v1, v2, newPosition) ==
  [vs EXCEPT ![v1].position = newPosition,
             ![v2].position = newPosition,
             ![v1].isDeleted = TRUE]

\* Step 1 of edgeCollapse: both endpoints move to the collapse position, v2 is tombstoned
mergeVertices(vs, v1, v2, newPosition) ==
  [vs EXCEPT ![v1].position = newPosition,
             ![v2].position = newPosition,
             ![v2].isDeleted = TRUE]

\* Step 4, the whole loop
remapEdges(es, v1, v2) == [i \in DOMAIN es |-> remapEdge(es[i], v1, v2)]

\* Step 5 followed by the removal of the tombstoned faces from the array
remapFacesCompact(fs, v1, v2) ==
  SelectSeq([i \in DOMAIN fs |-> remapFace(fs[i], v1, v2)], LAMBDA face : ~face.isDeleted)

\* Step 5, the whole loop
remapFaces(fs, v1, v2) == [i \in DOMAIN fs |-> remapFace(fs[i], v1, v2)]

\* Step 7 left out: no cost is recomputed
recomputeNone(es4, vs, v1) == es4

\* Step 7: affectedEdgeIndices holds the edges that were live and touched v1
\* after the remap of Step 4 (es4); each gets its cost recomputed
recomputeAffected(es4, vs, v1) ==
  [i \in DOMAIN es4 |->
     IF ~es4[i].isDeleted /\ (es4[i].v1 = v1 \/ es4[i].v2 = v1)
     THEN computeCost(es4[i], vs) ELSE es4[i]]

\* Step 8 on the vertex array: texCoord and color of v1 mixed with those of v2
mixAttributes(vs, v1, v2, t) ==
  [vs EXCEPT ![v1].texCoord = mix(vs[v1].texCoord, vs[v2].texCoord, t),
             ![v1].color = mix(vs[v1].color, vs[v2].color, t)]

\* Step 8, reading the positions stored on v1 and v2 at that point
interpolateAttributes(vs, v1, v2, newPosition) ==
  mixAttributes(vs, v1, v2, interpolationT(vs[v1].position, vs[v2].position, newPosition))

\* Steps 7 and 8, followed by a recomputation of every face plane from the
\* positions of its vertices
edgeCollapseFrom6Replane(vs6, es4, fs5, v1, v2, newPosition, deleted) ==
  [vertices |-> interpolateAttributes(vs6, v1, v2, newPosition),
   edges |-> recomputeAffected(es4, vs6, v1),
   faces |-> [f \in DOMAIN fs5 |->
                [fs5[f] EXCEPT !.planeEquation =
                   computeNormal(vs6[fs5[f].v1].position, vs6[fs5[f].v2].position,
                                 vs6[fs5[f].v3].position)]],
   deletedVertices |-> deleted]

\* Steps 7 and 8 on the vertex array of Step 6 and the arrays of Steps 4 and 5
edgeCollapseFrom6(vs6, es4, fs5, v1, v2, newPosition, deleted) ==
  [vertices |-> interpolateAttributes(vs6, v1, v2, newPosition),
   edges |-> recomputeAffected(es4, vs6, v1),
   faces |-> fs5,
   deletedVertices |-> deleted]

\* Step 6 on the results of Steps 1 to 5, then the rest
edgeCollapseFrom5(vs1, es4, fs5, v1, v2, newPosition, deleted) ==
  edgeCollapseFrom6(computeQuadric(v1, vs1, fs5), es4, fs5, v1, v2, newPosition, deleted)

\* Steps 1 to 5 for the edge (v1, v2) at edgeIndex, then the rest
edgeCollapseAt(m, edgeIndex, v1, v2, newPosition) ==
  edgeCollapseFrom5(mergeVertices(m.vertices, v1, v2, newPosition),
                    remapEdges([m.edges EXCEPT ![edgeIndex].isDeleted = TRUE], v1, v2),
                    remapFaces(m.faces, v1, v2),
                    v1, v2, newPosition, m.deletedVertices + 1)

\* edgeCollapse(mesh, mesh.edges[edgeIndex]): the mesh after the collapse
edgeCollapse(m, edgeIndex) ==
  edgeCollapseAt(m, edgeIndex, m.edges[edgeIndex].v1, m.edges[edgeIndex].v2,
                 m.edges[edgeIndex].optimalPosition)

---------------------------------------------------------------------------
(* Mesh.h: Mesh::buildMesh *)

\* floor(x / GRID_SIZE) for a rational coordinate x
gridCoord(x) == (x[1] * GRID_SIZE_INV) \div x[2]

\* the spatial hash key of a position
cellKey(pos) == <<gridCoord(pos[1]), gridCoord(pos[2]), gridCoord(pos[3])>>

\* glm::distance(a, b) < EPSILON, compared on the squares:
\* n / d < 1 / 10^8  <=>  n * 10^8 < d  <=>  n < ceil(d / 10^8)
closerThanEpsilon(a, b) ==
  LET d == V3Sub(a, b)
      d2 == V3Dot(d, d)
  IN  d2[1] < (d2[2] + EPSILON_SQ_INV - 1) \div EPSILON_SQ_INV

\* the scan extended over the buckets of all cells
findWeldedAnyCell(vs, cells, key, pos) ==
  LET hits == {k \in 1..Len(vs) : closerThanEpsilon(pos, vs[k].position)}
  IN  IF hits = {} THEN 0 ELSE CHOOSE k \in hits : \A o \in hits : k <= o

\* the scan of one hash bucket: the first registered vertex of the cell "key"
\* closer than EPSILON to pos, or 0. cells[k] is the key under which vertex k
\* was registered, so the bucket of "key" is the vertices k with cells[k] = key,
\* in order of creation.
findWelded(vs, cells, key, pos) ==
  LET hits == {k \in 1..Len(vs) : cells[k] = key /\ closerThanEpsilon(pos, vs[k].position)}
  IN  IF hits = {} THEN 0 ELSE CHOOSE k \in hits : \A o \in hits : k <= o

\* the body of the welding loop for one corner
weldCorner(st, corner) ==
  LET pos == corner.pos
      key == cellKey(pos)
      existingIdx == findWelded(st.vertices, st.cells, key, pos)
  IN  IF existingIdx # 0
      THEN [st EXCEPT !.vertexMapping = Append(@, existingIdx)]
      ELSE [vertices |-> Append(st.vertices,
                                Vertex(pos, corner.normal, corner.uv, <<R1, R1, R1, R1>>)),
            cells |-> Append(st.cells, key),
            vertexMapping |-> Append(st.vertexMapping, Len(st.vertices) + 1)]

\* Step 1 of buildMesh, corners lo..hi of the input in order: welding.
\* The range is halved, and the state after the first half ("left") is
\* evaluated before the second half is entered, to keep the evaluation shallow;
\* every corner appends one entry to vertexMapping.
RECURSIVE weld(_, _, _, _)
weldSecondHalf(input, lo, hi, left) ==
  IF Len(left.vertexMapping) >= 0 THEN weld(input, lo, hi, left) ELSE left

weld(input, lo, hi, st) ==
  IF lo > hi THEN st
  ELSE IF lo = hi THEN weldCorner(st, input[lo])
  ELSE weldSecondHalf(input, (lo + hi) \div 2 + 1, hi, weld(input, lo, (lo + hi) \div 2, st))

\* Step 2 of buildMesh: one face per complete triangle of the stream whose
\* three welded indices are pairwise distinct, in stream order
emitFaces(vs, vertexMapping) ==
  LET numVertices == Len(vertexMapping)
      triangles == [t \in 1..(numVertices \div 3) |->
                      <<vertexMapping[3 * t - 2], vertexMapping[3 * t - 1], vertexMapping[3 * t]>>]
      kept == SelectSeq(triangles, LAMBDA q : ~(q[1] = q[2] \/ q[2] = q[3] \/ q[3] = q[1]))
  IN  [k \in 1..Len(kept) |->
         Face(kept[k][1], kept[k][2], kept[k][3],
              vs[kept[k][1]].position, vs[kept[k][2]].position, vs[kept[k][3]].position)]

Min(a, b) == IF a < b THEN a ELSE b

Max(a, b) == IF a < b THEN b ELSE a

\* addEdge without the std::min / std::max normalisation of the key
addEdgeAsGiven(st, a, b) ==
  IF <<a, b>> \in st.edgeSet THEN st
  ELSE [edges |-> Append(st.edges, Edge(a, b)), edgeSet |-> st.edgeSet \cup {<<a, b>>}]

\* addEdge with the edgeSet test left out
addEdgeAlways(st, a, b) ==
  LET e == <<Min(a, b), Max(a, b)>>
  IN  [edges |-> Append(st.edges, Edge(e[1], e[2])), edgeSet |-> st.edgeSet \cup {e}]

\* one "if (!edgeSet[e]) { edges.push_back(Edge(e.first, e.second)); edgeSet[e] = true; }"
addEdge(st, a, b) ==
  LET e == <<Min(a, b), Max(a, b)>>
  IN  IF e \in st.edgeSet THEN st
      ELSE [edges |-> Append(st.edges, Edge(e[1], e[2])), edgeSet |-> st.edgeSet \cup {e}]

\* Step 3 of buildMesh, faces i..: unique edges
RECURSIVE extractEdges(_, _, _)
extractEdges(fs, i, st) ==
  IF i > Len(fs) THEN st
  ELSE LET face == fs[i]
       IN  extractEdges(fs, i + 1,
                        addEdge(addEdge(addEdge(st, face.v1, face.v2), face.v2, face.v3),
                                face.v3, face.v1))

\* Step 3 of buildMesh on the vertices and faces of Steps 1 and 2
buildEdges(vs, fs) ==
  [vertices |-> vs, faces |-> fs,
   edges |-> extractEdges(fs, 1, [edges |-> <<>>, edgeSet |-> {}]).edges]

\* Steps 2 and 3 of buildMesh on the result of the welding
buildFaces(welded) ==
  buildEdges(welded.vertices, emitFaces(welded.vertices, welded.vertexMapping))

\* buildMesh on a Mesh whose arrays are empty
buildMesh(input) ==
  buildFaces(weld(input, 1, Len(input),
                  [vertices |-> <<>>, cells |-> <<>>, vertexMapping |-> <<>>]))

---------------------------------------------------------------------------
(* Inputs: triangle streams as loadGLB hands them to buildMesh *)

\* bound: the number of meshSimplify calls (SPACE key presses) explored; the
\* inputs of Spec are collapsed completely within this many calls
MaxCalls == 5

\* bound: the number of meshSimplify calls explored on the chain input
MaxChainCalls == 3

\* bound: the largest per-call budget originalVertexCount / 100 among the inputs
MaxBudget == 2

\* one corner of the stream at integer coordinates, uv taken from x and y, normal +z
Corner(x, y, z) ==
  [pos |-> <<RInt(x), RInt(y), RInt(z)>>, uv |-> <<RInt(x), RInt(y)>>,
   normal |-> <<R0, R0, R1>>]

\* the stream of the triangles tris (triples of indices into the positions P)
RECURSIVE Stream(_, _, _)
Stream(P, tris, i) ==
  IF i > Len(tris) THEN <<>>
  ELSE <<P[tris[i][1]], P[tris[i][2]], P[tris[i][3]]>> \o Stream(P, tris, i + 1)

\* n zero-area triangles (A, A, B) far from the origin: buildMesh skips each
\* as degenerate and keeps the two vertices A and B it welded
Isolated(n) ==
  [i \in 1..(3 * n) |->
     LET t == (i + 2) \div 3
     IN  IF i % 3 = 0 THEN Corner(11 + 2 * t, 0, 0) ELSE Corner(10 + 2 * t, 0, 0)]

\* unit square, two triangles sharing the diagonal (planar)
SquareMesh ==
  Stream(<<Corner(0, 0, 0), Corner(1, 0, 0), Corner(1, 1, 0), Corner(0, 1, 0)>>,
         <<(<<1, 2, 3>>), (<<1, 3, 4>>)>>, 1)

TetraPoints == <<Corner(0, 0, 0), Corner(1, 0, 0), Corner(0, 1, 0), Corner(0, 0, 1)>>

\* closed tetrahedron
TetraMesh ==
  Stream(TetraPoints, <<(<<1, 2, 3>>), (<<1, 2, 4>>), (<<1, 3, 4>>), (<<2, 3, 4>>)>>, 1)

\* a two-sided triangle (both orientations) with a third triangle on one of
\* its edges: three live faces contain the edge (1, 2)
FlapMesh ==
  Stream(TetraPoints, <<(<<1, 2, 3>>), (<<2, 1, 3>>), (<<1, 2, 4>>)>>, 1)

\* two triangles sharing an edge and a third one touching them in a vertex
ChainMesh ==
  Stream(<<Corner(1, 0, 0), Corner(0, 1, 0), Corner(0, 0, 1), Corner(1, 0, 1),
           Corner(0, 0, 0), Corner(1, 1, 1)>>,
         <<(<<3, 4, 6>>), (<<3, 4, 5>>), (<<1, 2, 5>>)>>, 1)

\* the names of the input streams explored: <<mesh, b>>; with b >= 1 the mesh
\* is followed by isolated vertices up to 100 * b vertices in all, so that the
\* per-call budget originalVertexCount / 100 is b; with b = 0 the mesh is alone
Inputs ==
  {<<"empty", 0>>, <<"square", 0>>, <<"flap", 0>>} \cup {<<"tetra", b>> : b \in 0..MaxBudget}

\* the input on which a stale snapshot meets a clean edge, and one whose heap
\* runs empty within the calls explored
ChainInputs == {<<"chain", 0>>, <<"tetra", MaxBudget>>}

\* bound: the number of corners of the streams the welding is explored on
WeldLen == 3

\* positions on the x axis around the origin, in units of 1/12500: 0 and 1
\* are closer than EPSILON, as are 1 and 2, while 0 and 2 are not, all three
\* in one grid cell; -1 is closer than EPSILON to 0 but lies in the next cell
WeldPositions ==
  <<(<<R0, R0, R0>>), (<<Rat(1, 12500), R0, R0>>), (<<Rat(2, 12500), R0, R0>>),
    (<<Rat(0 - 1, 12500), R0, R0>>)>>

\* the corners tried: each position with two different normals and uvs
WeldCorners ==
  [k \in 1..(2 * Len(WeldPositions)) |->
     IF k <= Len(WeldPositions)
     THEN [pos |-> WeldPositions[k], uv |-> <<R0, R0>>, normal |-> <<R0, R0, R1>>]
     ELSE [pos |-> WeldPositions[k - Len(WeldPositions)], uv |-> <<R1, RHalf>>,
           normal |-> <<R1, R0, R0>>]]

\* the stream number n: its corners are the digits of n in base Len(WeldCorners)
WeldStream(n) ==
  [k \in 1..WeldLen |->
     WeldCorners[((n \div (Len(WeldCorners) ^ (WeldLen - k))) % Len(WeldCorners)) + 1]]

\* every stream of WeldLen corners
WeldInputs == {<<"weld", n>> : n \in 0..((Len(WeldCorners) ^ WeldLen) - 1)}

\* the triangle stream of an input
InputStream(in) ==
  CASE in[1] = "empty" -> <<>>
    [] in[1] = "square" -> SquareMesh
    [] in[1] = "flap" -> FlapMesh
    [] in[1] = "chain" -> ChainMesh
    [] in[1] = "weld" -> WeldStream(in[2])
    [] in[1] = "tetra" /\ in[2] = 0 -> TetraMesh
    [] in[1] = "tetra" /\ in[2] > 0 -> TetraMesh \o Isolated((BUDGET_DIVISOR * in[2] - 4) \div 2)

---------------------------------------------------------------------------
(* State *)

VARIABLES
  input,                \* the triangle stream loaded by main
  vertices,             \* mesh.vertices
  edges,                \* mesh.edges
  faces,                \* mesh.faces
  deletedVertices,      \* mesh.deletedVertices
  edgeQueue,            \* the priority queue of edge snapshots, as a bag
  originalVertexCount,  \* main.cpp global
  count,                \* local variable of meshSimplify
  pc,                   \* position of the program
  calls,                \* history: number of meshSimplify calls started
  totalCollapses,       \* history: number of edgeCollapse calls so far
  facesAtStart,         \* history: live faces when the current call started
  lastPop,              \* history: what the last loop iteration of meshSimplify did
  currentCosts,         \* history: costs of the collapses triggered by a current snapshot
  tick,                 \* history: parity of the loop iterations executed so far
  renderData,           \* verticesVec4, colors and uvs, one entry per emitted corner
  activeVertexCount     \* main.cpp global

vars == <<input, vertices, edges, faces, deletedVertices, edgeQueue, originalVertexCount,
          count, pc, calls, totalCollapses, facesAtStart, lastPop, currentCosts, tick,
          renderData, activeVertexCount>>

mesh == [vertices |-> vertices, edges |-> edges, faces |-> faces,
         deletedVertices |-> deletedVertices]

\* a heap entry is a copy of an Edge; only v1, v2 and cost of a popped copy are read
Snapshot(e) == [v1 |-> e.v1, v2 |-> e.v2, cost |-> e.cost]

NoPop == [kind |-> "none", v1 |-> 0, v2 |-> 0, cost |-> R0, edgeIndex |-> 0, liveCost |-> R0,
          shared |-> 0]

LiveFaces(fs) == Cardinality({i \in DOMAIN fs : ~fs[i].isDeleted})

\* originalVertexCount / 100
Budget == originalVertexCount \div BUDGET_DIVISOR

\* the number of calls explored on the loaded input
CallBound == IF input[1] = "chain" THEN MaxChainCalls ELSE MaxCalls

InitWith(inputs) ==
  /\ input \in inputs
  /\ vertices = <<>>
  /\ edges = <<>>
  /\ faces = <<>>
  /\ deletedVertices = 0
  /\ edgeQueue = EmptyBag
  /\ originalVertexCount = 0
  /\ count = 0
  /\ pc = "start"
  /\ calls = 0
  /\ totalCollapses = 0
  /\ facesAtStart = 0
  /\ lastPop = NoPop
  /\ currentCosts = <<>>
  /\ tick = 0
  /\ renderData = <<>>
  /\ activeVertexCount = 0

---------------------------------------------------------------------------
(* main.cpp: start-up sequence of main *)

\* what "const Vertex &v = mesh.vertices[index]" can refer to: the vertex at
\* the index, or, for an index outside the array, any memory content
readVertex(vs, index) ==
  IF index \in DOMAIN vs THEN {vs[index]}
  ELSE {vs[k] : k \in DOMAIN vs} \cup {Vertex(Unset, Unset, Unset, Unset)}

\* the entries one corner adds to verticesVec4, colors and uvs, with the face
\* and the vertex index they were read from
corners(vs, f, index) ==
  {[face |-> f, vertex |-> index, position |-> v.position, color |-> v.color,
    texCoord |-> v.texCoord] : v \in readVertex(vs, index)}

\* the face loop of updateRenderData from faces[i] on, tombstoned faces emitted too
RECURSIVE renderAll(_, _, _)
renderAll(vs, fs, i) ==
  IF i > Len(fs) THEN {<<>>}
  ELSE {<<c1, c2, c3>> \o rest : <<c1, c2, c3, rest>> \in
          corners(vs, i, fs[i].v1) \X corners(vs, i, fs[i].v2) \X corners(vs, i, fs[i].v3)
            \X renderAll(vs, fs, i + 1)}

\* the face loop of updateRenderData from faces[i] on: the possible buffer contents
RECURSIVE render(_, _, _)
render(vs, fs, i) ==
  IF i > Len(fs) THEN {<<>>}
  ELSE IF fs[i].isDeleted THEN render(vs, fs, i + 1)
  ELSE {<<c1, c2, c3>> \o rest : <<c1, c2, c3, rest>> \in
          corners(vs, i, fs[i].v1) \X corners(vs, i, fs[i].v2) \X corners(vs, i, fs[i].v3)
            \X render(vs, fs, i + 1)}

\* updateRenderData without the isDeleted test
updateRenderDataAll(vs, fs) == renderAll(vs, fs, 1)

\* updateRenderData: the buffers are cleared and refilled from the live faces
updateRenderData(vs, fs) == render(vs, fs, 1)

\* mesh.buildMesh(numVertices, vertices, uvs, normals)
BuildMesh ==
  /\ pc = "start"
  /\ \E built \in {buildMesh(InputStream(input))} :
       /\ vertices' = built.vertices
       /\ edges' = built.edges
       /\ faces' = built.faces
  /\ pc' = "built"
  /\ UNCHANGED <<input, deletedVertices, edgeQueue, originalVertexCount, count, calls,
                 totalCollapses, facesAtStart, lastPop, currentCosts>>
  /\ UNCHANGED tick
  /\ UNCHANGED <<renderData, activeVertexCount>>

\* computeAllQuadrics(mesh.vertices, mesh.faces)
ComputeAllQuadrics ==
  /\ pc = "built"
  /\ vertices' = computeAllQuadrics(vertices, faces)
  /\ pc' = "quadrics"
  /\ UNCHANGED <<input, edges, faces, deletedVertices, edgeQueue, originalVertexCount, count,
                 calls, totalCollapses, facesAtStart, lastPop, currentCosts>>
  /\ UNCHANGED tick
  /\ UNCHANGED <<renderData, activeVertexCount>>

\* initFunc: originalVertexCount = mesh.vertices.size(); activeVertexCount = updateRenderData()
InitFunc ==
  /\ pc = "quadrics"
  /\ originalVertexCount' = Len(vertices)
  /\ pc' = "idle"
  /\ UNCHANGED <<input, vertices, edges, faces, deletedVertices, edgeQueue, count, calls,
                 totalCollapses, facesAtStart, lastPop, currentCosts>>
  /\ UNCHANGED tick
  /\ \E rendered \in updateRenderData(vertices, faces) :
       /\ renderData' = rendered
       /\ activeVertexCount' = Len(rendered)

---------------------------------------------------------------------------
(* main.cpp: meshSimplify *)

\* the refill at the top of meshSimplify: cost, clean flag and snapshot for every live edge
lazyInit(es, vs) ==
  [i \in DOMAIN es |-> IF es[i].isDeleted THEN es[i]
                       ELSE [computeCost(es[i], vs) EXCEPT !.isDirty = FALSE]]

\* the bag of the snapshots of the edges es[i], i in idx
snapshots(es, idx) ==
  [s \in {Snapshot(es[i]) : i \in idx} |-> Cardinality({i \in idx : Snapshot(es[i]) = s})]

\* the pushes of a refill that takes only the edges still marked dirty
pushedAllDirty(es) == snapshots(es, {i \in DOMAIN es : ~es[i].isDeleted /\ es[i].isDirty})

\* the pushes of a refill without the isDeleted test
pushedAllEdges(es) == snapshots(es, DOMAIN es)

\* the pushes of the refill: every live edge
pushedAll(es) == snapshots(es, {i \in DOMAIN es : ~es[i].isDeleted})

\* the pushes of the marking loop: every live edge at newVertexIndex
pushed(es, newVertexIndex) ==
  snapshots(es, {i \in DOMAIN es : /\ ~es[i].isDeleted
                                   /\ (es[i].v1 = newVertexIndex \/ es[i].v2 = newVertexIndex)})

\* top of a queue that is not ordered by cost: any entry
topAny(queue) == BagToSet(queue)

\* top of a queue ordered by the reversed comparator: an entry of greatest cost
topMax(queue) ==
  {s \in BagToSet(queue) : \A o \in BagToSet(queue) : ~RLt(s.cost, o.cost)}

\* EdgeComparator / edgeQueue.top(): an entry no other entry has a smaller cost
\* than; which one of several equal-cost entries is on top depends on the heap
\* layout, so any of them may be
top(queue) ==
  {s \in BagToSet(queue) : \A o \in BagToSet(queue) : ~RLt(o.cost, s.cost)}

\* edgeQueue.pop() of the entry s
pop(queue, s) == queue (-) SetToBag({s})

\* the scan of mesh.edges for the endpoint pair of a snapshot, either order:
\* the first matching index, 0 if there is none
RECURSIVE findEdge(_, _, _)
findEdge(es, s, i) ==
  IF i > Len(es) THEN 0
  ELSE IF \/ (es[i].v1 = s.v1 /\ es[i].v2 = s.v2)
          \/ (es[i].v1 = s.v2 /\ es[i].v2 = s.v1)
       THEN i
  ELSE findEdge(es, s, i + 1)

\* the dirty branch with the reset of the flag left out
refreshEdgeKeepDirty(e, vs) == computeCost(e, vs)

\* the dirty branch storing cost 1 in place of the recomputed cost
refreshEdgeUnitCost(e, vs) == [e EXCEPT !.cost = R1, !.isDirty = FALSE]

\* the dirty branch: the edge with cost recomputed and the flag cleared
refreshEdge(e, vs) == [computeCost(e, vs) EXCEPT !.isDirty = FALSE]

\* the marking loop testing the first endpoint only
markDirtyFirstEndpoint(es, newVertexIndex) ==
  [i \in DOMAIN es |->
     IF ~es[i].isDeleted /\ es[i].v1 = newVertexIndex
     THEN [es[i] EXCEPT !.isDirty = TRUE] ELSE es[i]]

\* the marking loop after a collapse: every live edge at newVertexIndex becomes dirty
markDirty(es, newVertexIndex) ==
  [i \in DOMAIN es |->
     IF ~es[i].isDeleted /\ (es[i].v1 = newVertexIndex \/ es[i].v2 = newVertexIndex)
     THEN [es[i] EXCEPT !.isDirty = TRUE] ELSE es[i]]

\* the budget test with == in place of >=
budgetReachedEqual(c, budget) == c = budget

\* the budget test with > in place of >=
budgetReachedAfter(c, budget) == c > budget

\* "if (count >= originalVertexCount / 100) break;" after ++count
budgetReached(c, budget) == c >= budget

\* live faces that contain both endpoints of an edge
SharedFaces(fs, e) ==
  Cardinality({i \in DOMAIN fs :
                 /\ ~fs[i].isDeleted
                 /\ e.v1 \in {fs[i].v1, fs[i].v2, fs[i].v3}
                 /\ e.v2 \in {fs[i].v1, fs[i].v2, fs[i].v3}})

\* a call of meshSimplify up to the first test of the while condition
MeshSimplifyBegin ==
  /\ pc = "idle"
  /\ calls < CallBound
  /\ IF edgeQueue = EmptyBag
     THEN \E initialized \in {lazyInit(edges, vertices)} :
            /\ edges' = initialized
            /\ edgeQueue' = pushedAll(initialized)
     ELSE UNCHANGED <<edges, edgeQueue>>
  /\ count' = 0
  /\ pc' = "loop"
  /\ calls' = calls + 1
  /\ facesAtStart' = LiveFaces(faces)
  /\ lastPop' = [NoPop EXCEPT !.kind = IF edgeQueue = EmptyBag THEN "refill" ELSE "none"]
  /\ UNCHANGED <<input, vertices, faces, deletedVertices, originalVertexCount,
                 totalCollapses, currentCosts>>
  /\ UNCHANGED tick
  /\ UNCHANGED <<renderData, activeVertexCount>>

\* the snapshot on top of the heap together with the index the scan finds for it
Popped == {<<s, findEdge(edges, s, 1)>> : s \in top(edgeQueue)}

\* one iteration: the popped snapshot matches no edge or a tombstoned one
PopDiscard ==
  /\ pc = "loop"
  /\ \E p \in Popped :
       /\ (IF p[2] = 0 THEN TRUE ELSE edges[p[2]].isDeleted)
       /\ edgeQueue' = pop(edgeQueue, p[1])
       /\ lastPop' = [kind |-> "discard", v1 |-> p[1].v1, v2 |-> p[1].v2, cost |-> p[1].cost,
                      edgeIndex |-> p[2], liveCost |-> R0, shared |-> 0]
  /\ UNCHANGED <<input, vertices, edges, faces, deletedVertices, originalVertexCount, count,
                 pc, calls, totalCollapses, facesAtStart, currentCosts>>
  /\ tick' = 1 - tick
  /\ UNCHANGED <<renderData, activeVertexCount>>

\* one iteration: the matching live edge is dirty
PopDirty ==
  /\ pc = "loop"
  /\ \E p \in Popped :
       /\ p[2] # 0
       /\ ~edges[p[2]].isDeleted
       /\ edges[p[2]].isDirty
       /\ \E refreshed \in {refreshEdge(edges[p[2]], vertices)} :
            /\ edges' = [edges EXCEPT ![p[2]] = refreshed]
            /\ edgeQueue' = pop(edgeQueue, p[1]) (+) SetToBag({Snapshot(refreshed)})
       /\ lastPop' = [kind |-> "dirty", v1 |-> p[1].v1, v2 |-> p[1].v2, cost |-> p[1].cost,
                      edgeIndex |-> p[2], liveCost |-> edges[p[2]].cost, shared |-> 0]
  /\ UNCHANGED <<input, vertices, faces, deletedVertices, originalVertexCount, count, pc,
                 calls, totalCollapses, facesAtStart, currentCosts>>
  /\ tick' = 1 - tick
  /\ UNCHANGED <<renderData, activeVertexCount>>

\* one iteration: the matching live edge is clean and is collapsed; when the
\* budget ends the call, the key handler refreshes the buffers
PopCollapse ==
  /\ pc = "loop"
  /\ \E p \in Popped :
       /\ p[2] # 0
       /\ ~edges[p[2]].isDeleted
       /\ ~edges[p[2]].isDirty
       /\ \E collapsed \in {edgeCollapse(mesh, p[2])} :
            \E marked \in {markDirty(collapsed.edges, collapsed.edges[p[2]].v1)} :
              /\ vertices' = collapsed.vertices
              /\ faces' = collapsed.faces
              /\ deletedVertices' = collapsed.deletedVertices
              /\ edges' = marked
              /\ edgeQueue' = pop(edgeQueue, p[1]) (+) pushed(marked, collapsed.edges[p[2]].v1)
              /\ IF budgetReached(count + 1, Budget)
                 THEN \E rendered \in updateRenderData(collapsed.vertices, collapsed.faces) :
                        /\ renderData' = rendered
                        /\ activeVertexCount' = Len(rendered)
                 ELSE UNCHANGED <<renderData, activeVertexCount>>
       /\ lastPop' = [kind |-> "collapse", v1 |-> p[1].v1, v2 |-> p[1].v2, cost |-> p[1].cost,
                      edgeIndex |-> p[2], liveCost |-> edges[p[2]].cost,
                      shared |-> SharedFaces(faces, edges[p[2]])]
       /\ currentCosts' = IF p[1].cost = edges[p[2]].cost
                          THEN Append(currentCosts, p[1].cost) ELSE currentCosts
  /\ count' = count + 1
  /\ totalCollapses' = totalCollapses + 1
  /\ pc' = IF budgetReached(count', Budget) THEN "idle" ELSE "loop"
  /\ UNCHANGED <<input, originalVertexCount, calls, facesAtStart>>
  /\ tick' = 1 - tick

\* the while condition fails: the queue is empty; the key handler refreshes the buffers
MeshSimplifyReturn ==
  /\ pc = "loop"
  /\ edgeQueue = EmptyBag
  /\ pc' = "idle"
  /\ UNCHANGED <<input, vertices, edges, faces, deletedVertices, edgeQueue,
                 originalVertexCount, count, calls, totalCollapses, facesAtStart, lastPop,
                 currentCosts>>
  /\ tick' = 1 - tick
  /\ \E rendered \in updateRenderData(vertices, faces) :
       /\ renderData' = rendered
       /\ activeVertexCount' = Len(rendered)

Next ==
  \/ BuildMesh
  \/ ComputeAllQuadrics
  \/ InitFunc
  \/ MeshSimplifyBegin
  \/ PopDiscard
  \/ PopDirty
  \/ PopCollapse
  \/ MeshSimplifyReturn

Init == InitWith(Inputs)

Spec == Init /\ [][Next]_vars

\* the same program on the chain inputs
InitChain == InitWith(ChainInputs)

SpecChain == InitChain /\ [][Next]_vars

\* buildMesh alone, on the welding streams
InitWeld == InitWith(WeldInputs)

NextWeld == BuildMesh

SpecWeld == InitWeld /\ [][NextWeld]_vars

\* one more iteration of the while loop of meshSimplify (its last one included)
Iterate == pc = "loop" /\ tick' = 1 - tick

\* the same program with the scheduling of the pop loop: a call that is in the
\* loop goes on to its next iteration, which is a pop or the exit on an empty queue
SpecFair == Init /\ [][Next]_vars /\ WF_tick(Iterate)

---------------------------------------------------------------------------
(* computeCost on its own: one edge between two vertices with given quadrics *)

\* endpoint positions tried
CostPoints ==
  {<<RInt(0), RInt(0), RInt(0)>>, <<RInt(1), RInt(0), RInt(0)>>,
   <<RInt(0), RInt(1), RInt(0)>>, <<RInt(1), RInt(1), RInt(1)>>}

\* fundamental quadrics of the planes z = 0, x = 0, y = 0 and x + y + z = 1
Kz == outerProduct(computeNormal(<<RInt(0), RInt(0), RInt(0)>>, <<RInt(1), RInt(0), RInt(0)>>,
                                 <<RInt(0), RInt(1), RInt(0)>>))

Kx == outerProduct(computeNormal(<<RInt(0), RInt(0), RInt(0)>>, <<RInt(0), RInt(1), RInt(0)>>,
                                 <<RInt(0), RInt(0), RInt(1)>>))

Ky == outerProduct(computeNormal(<<RInt(0), RInt(0), RInt(0)>>, <<RInt(0), RInt(0), RInt(1)>>,
                                 <<RInt(1), RInt(0), RInt(0)>>))

Kd == outerProduct(computeNormal(<<RInt(1), RInt(0), RInt(0)>>, <<RInt(0), RInt(1), RInt(0)>>,
                                 <<RInt(0), RInt(0), RInt(1)>>))

\* vertex quadrics tried: none, one plane, two planes
CostQuadrics == {ZeroMat, Kz, Kx, MatAdd(Kx, Ky), MatAdd(Kz, Kd)}

\* a vertex at pos carrying the quadric q
VertexWith(pos, q) ==
  [Vertex(pos, <<R0, R0, R1>>, <<R0, R0>>, <<R1, R1, R1, R1>>) EXCEPT !.quadric = q]

InitCost ==
  /\ input = <<"cost", 0>>
  /\ vertices \in {<<VertexWith(p1, q1), VertexWith(p2, q2)>> :
                     <<p1, p2, q1, q2>> \in {x \in CostPoints \X CostPoints \X CostQuadrics
                                                     \X CostQuadrics : x[1] # x[2]}}
  /\ edges = <<Edge(1, 2)>>
  /\ faces = <<>>
  /\ deletedVertices = 0
  /\ edgeQueue = EmptyBag
  /\ originalVertexCount = 0
  /\ count = 0
  /\ pc = "cost"
  /\ calls = 0
  /\ totalCollapses = 0
  /\ facesAtStart = 0
  /\ lastPop = NoPop
  /\ currentCosts = <<>>
  /\ tick = 0
  /\ renderData = <<>>
  /\ activeVertexCount = 0

\* computeCost(mesh.edges[0], mesh.vertices)
ComputeCost ==
  /\ pc = "cost"
  /\ \E costed \in {computeCost(edges[1], vertices)} : edges' = <<costed>>
  /\ pc' = "costed"
  /\ UNCHANGED <<input, vertices, faces, deletedVertices, edgeQueue, originalVertexCount,
                 count, calls, totalCollapses, facesAtStart, lastPop, currentCosts, tick>>
  /\ UNCHANGED <<renderData, activeVertexCount>>

NextCost == ComputeCost

SpecCost == InitCost /\ [][NextCost]_vars

---------------------------------------------------------------------------
(* Properties *)

LiveVertex(i) == i \in DOMAIN vertices /\ ~vertices[i].isDeleted

LiveEdges == {i \in DOMAIN edges : ~edges[i].isDeleted}

\* the unordered endpoint pair of an edge
EndpointPair(e) == {e.v1, e.v2}

\* what C6 calls mesh state: tombstones, positions, edge endpoints, face indices
MeshShape(vs, es, fs) ==
  [vertices |-> [i \in DOMAIN vs |-> <<vs[i].isDeleted, vs[i].position>>],
   edges |-> [i \in DOMAIN es |-> <<es[i].isDeleted, es[i].v1, es[i].v2>>],
   faces |-> [i \in DOMAIN fs |-> <<fs[i].isDeleted, fs[i].v1, fs[i].v2, fs[i].v3>>]]

\* a step of the loop that called edgeCollapse
CollapseStep == totalCollapses' = totalCollapses + 1

\* C1: every live face has three pairwise distinct vertex indices, each of a
\* live vertex, after buildMesh and after any sequence of meshSimplify calls
C1_LiveFacesWellFormed ==
  \A i \in DOMAIN faces :
    ~faces[i].isDeleted =>
      /\ faces[i].v1 # faces[i].v2
      /\ faces[i].v2 # faces[i].v3
      /\ faces[i].v3 # faces[i].v1
      /\ LiveVertex(faces[i].v1)
      /\ LiveVertex(faces[i].v2)
      /\ LiveVertex(faces[i].v3)

\* C1 witness: collapses have tombstoned a face and left another one live
C1_Witness ==
  /\ totalCollapses >= 1
  /\ \E i, j \in DOMAIN faces : ~faces[i].isDeleted /\ faces[j].isDeleted

\* C2: every live edge has distinct endpoints, both of live vertices
C2_LiveEdgesWellFormed ==
  \A i \in LiveEdges :
    /\ edges[i].v1 # edges[i].v2
    /\ LiveVertex(edges[i].v1)
    /\ LiveVertex(edges[i].v2)

\* C2 witness: two collapses have happened and a live edge remains
C2_Witness == totalCollapses >= 2 /\ LiveEdges # {}

\* C3 as stated: no two live edges have the same unordered endpoint pair
C3_NoDuplicateLiveEdges ==
  \A i, j \in LiveEdges : i # j => EndpointPair(edges[i]) # EndpointPair(edges[j])

\* C4: mesh.deletedVertices is the number of tombstoned vertices
C4_DeletedCounter ==
  deletedVertices = Cardinality({i \in DOMAIN vertices : vertices[i].isDeleted})

\* C4 witness: the counter has been incremented twice
C4_Witness == deletedVertices >= 2

\* C5 (amended): no step raises the number of live faces, and a step that
\* collapses an edge lowers it by exactly the number of live faces that
\* contained both endpoints of that edge, which can exceed 2
C5_FacesPerCollapse ==
  [][/\ pc # "start" => LiveFaces(faces') <= LiveFaces(faces)
     /\ CollapseStep => LiveFaces(faces) - LiveFaces(faces') = lastPop'.shared]_vars

\* C5 witness: a collapse of an edge that three live faces contained
C5_Witness == lastPop.kind = "collapse" /\ lastPop.shared = 3

\* C5 as stated: within a call the live faces drop by at least 0 and by at
\* most 2 per collapse performed
C5_AtMostTwoPerCollapse ==
  (pc \in {"loop", "idle"} /\ calls >= 1) =>
    /\ facesAtStart - LiveFaces(faces) >= 0
    /\ facesAtStart - LiveFaces(faces) <= 2 * count

\* C6 (amended): with budget 0 a call performs exactly one collapse, and none
\* only when the heap ran empty before a clean live edge was popped
C6_BudgetZeroOneCollapse ==
  (Budget = 0 /\ calls >= 1) =>
    /\ pc = "loop" => count = 0
    /\ pc = "idle" => (count = 1 \/ (count = 0 /\ edgeQueue = EmptyBag))

\* C6 witness: a finished call with budget 0 that collapsed an edge
C6_Witness == Budget = 0 /\ calls >= 1 /\ pc = "idle" /\ count = 1

\* C6 as stated: with budget 0 no step of meshSimplify changes tombstones,
\* positions, edge endpoints or face indices
C6_BudgetZeroNoOp ==
  [][(pc \in {"idle", "loop"} /\ Budget = 0) =>
       MeshShape(vertices', edges', faces') = MeshShape(vertices, edges, faces)]_vars

C8_Terminates == (pc = "loop") ~> (pc = "idle")

\* C8 witness: a call in its loop that has just re-pushed a refreshed dirty edge
C8_Witness == pc = "loop" /\ lastPop.kind = "dirty"

\* C9 (amended): every collapse is triggered by a snapshot whose cost none of
\* the heap entries at the time of the pop was below
C9_CollapsesPopMinimum ==
  [][CollapseStep =>
       \A o \in BagToSet(edgeQueue) : ~RLt(o.cost, lastPop'.cost)]_vars

\* C9 witness: a second or later collapse, with entries left in the heap
C9_Witness ==
  lastPop.kind = "collapse" /\ totalCollapses >= 2 /\ edgeQueue # EmptyBag

\* C9 as stated: the collapses triggered by a snapshot with the live edge's
\* cost happen in non-decreasing order of that cost
C9_NonDecreasingCosts ==
  \A i \in 1..(Len(currentCosts) - 1) : RLe(currentCosts[i], currentCosts[i + 1])

SummedQuadric(e) == MatAdd(vertices[e.v1].quadric, vertices[e.v2].quadric)

\* the midpoint of the endpoints of an edge
Midpoint(e) == V3Scale(V3Add(vertices[e.v1].position, vertices[e.v2].position), RHalf)

\* computeCost takes its singular branch on the edge
Singular(e) == ~GtPow10Neg(RAbs(determinantQbar(SummedQuadric(e))), QEM_EPSILON_EXP)

\* the three fallback candidates of the edge have the same error
EqualErrors(e) ==
  /\ QuadForm(SummedQuadric(e), vertices[e.v1].position)
       = QuadForm(SummedQuadric(e), vertices[e.v2].position)
  /\ QuadForm(SummedQuadric(e), vertices[e.v1].position)
       = QuadForm(SummedQuadric(e), Midpoint(e))

\* C11 (amended): when the summed quadric is singular and the three fallback
\* candidates have equal error, computeCost returns the position of v1 (the
\* first candidate) with that error as cost; for the zero matrix the cost is 0
C11_TieKeepsFirstCandidate ==
  (pc = "costed" /\ Singular(edges[1]) /\ EqualErrors(edges[1])) =>
    /\ edges[1].optimalPosition = vertices[edges[1].v1].position
    /\ edges[1].cost = QuadForm(SummedQuadric(edges[1]), vertices[edges[1].v1].position)
    /\ SummedQuadric(edges[1]) = ZeroMat => edges[1].cost = R0

\* C11 witness: computeCost has run on an edge whose endpoint quadrics sum to zero
C11_Witness == pc = "costed" /\ SummedQuadric(edges[1]) = ZeroMat

\* C11 as stated: with a zero summed quadric, and whenever the three
\* candidates have equal error, computeCost returns the midpoint (cost 0 for
\* the zero matrix)
C11_TieGivesMidpoint ==
  (pc = "costed" /\ Singular(edges[1]) /\ EqualErrors(edges[1])) =>
    /\ edges[1].optimalPosition = Midpoint(edges[1])
    /\ SummedQuadric(edges[1]) = ZeroMat => edges[1].cost = R0

\* the corner positions of triangle t of a stream
TrianglePositions(in, t) == {in[3 * t - 2].pos, in[3 * t - 1].pos, in[3 * t].pos}

\* a stream of whole triangles whose distinct positions are at least EPSILON
\* apart and in which no triangle repeats a position
WellFormedStream(in) ==
  /\ Len(in) % 3 = 0
  /\ \A i, j \in DOMAIN in : in[i].pos # in[j].pos => ~closerThanEpsilon(in[i].pos, in[j].pos)
  /\ \A t \in 1..(Len(in) \div 3) : Cardinality(TrianglePositions(in, t)) = 3

\* the unordered pairs of positions that are corners of one triangle
AdjacentPairs(in) ==
  UNION {{{p, q} : <<p, q>> \in {x \in TrianglePositions(in, t) \X TrianglePositions(in, t) :
                                   x[1] # x[2]}} : t \in 1..(Len(in) \div 3)}

\* C12: on a well-formed stream buildMesh yields one vertex per distinct
\* position, one face per triangle and one edge per unordered pair of
\* positions adjacent in some triangle
C12_BuildCounts ==
  (pc = "built" /\ WellFormedStream(InputStream(input))) =>
    /\ Len(vertices) = Cardinality({InputStream(input)[i].pos : i \in DOMAIN InputStream(input)})
    /\ Len(faces) = Len(InputStream(input)) \div 3
    /\ Len(edges) = Cardinality(AdjacentPairs(InputStream(input)))

\* C12 witness: the unit square given as 6 corners built into 4 vertices, 2
\* faces and 5 edges
C12_Witness ==
  /\ pc = "built"
  /\ input = <<"square", 0>>
  /\ WellFormedStream(InputStream(input))
  /\ Len(InputStream(input)) = 6
  /\ Len(vertices) = 4 /\ Len(faces) = 2 /\ Len(edges) = 5

\* the live edges with an endpoint at vertex i
LiveEdgesAt(i) == {k \in LiveEdges : i \in EndpointPair(edges[k])}

\* the sum of the fundamental quadrics of the live faces incident to vertex i
IncidentQuadric(i) == sumQuadric(i, faces, 1, ZeroMat)

\* C13: after computeAllQuadrics every live vertex either carries the sum of
\* the fundamental quadrics of its live incident faces or has all its live
\* edges dirty, the third vertex of a just tombstoned face included
C13_QuadricCurrentOrDirty ==
  pc \in {"quadrics", "idle", "loop"} =>
    \A i \in DOMAIN vertices :
      LiveVertex(i) =>
        \/ vertices[i].quadric = IncidentQuadric(i)
        \/ \A k \in LiveEdgesAt(i) : edges[k].isDirty

\* the tombstoned vertices of a vertex array
Tombstoned(vs) == {i \in DOMAIN vs : vs[i].isDeleted}

\* the faces of fs, live or not, whose corners include both a and b
FacesWithBoth(fs, a, b) == {f \in DOMAIN fs : {a, b} \subseteq {fs[f].v1, fs[f].v2, fs[f].v3}}

\* the closed tetrahedron before its first collapse
FreshTetrahedron ==
  /\ input = <<"tetra", 0>>
  /\ Len(vertices) = 4 /\ Tombstoned(vertices) = {}
  /\ LiveFaces(faces) = 4
  /\ Cardinality(LiveEdges) = 6

\* C14: a collapse of the live edge (v1, v2) tombstones v2, which was live,
\* and no other vertex, leaves v1 live and tombstones every face that held
\* both endpoints; on the closed tetrahedron the first collapse leaves one
\* tombstoned vertex and at most 2 live faces
C14_CollapseTombstones ==
  [][CollapseStep =>
       LET e == edges[lastPop'.edgeIndex]
       IN  /\ ~e.isDeleted
           /\ ~vertices[e.v1].isDeleted /\ ~vertices[e.v2].isDeleted
           /\ Tombstoned(vertices') = Tombstoned(vertices) \cup {e.v2}
           /\ Cardinality(Tombstoned(vertices')) = Cardinality(Tombstoned(vertices)) + 1
           /\ ~vertices'[e.v1].isDeleted
           /\ \A f \in FacesWithBoth(faces, e.v1, e.v2) : faces'[f].isDeleted
           /\ FreshTetrahedron =>
                /\ Cardinality(Tombstoned(vertices')) = 1
                /\ LiveFaces(faces') <= 2]_vars

\* C14 witness: the closed tetrahedron after its first collapse, with one
\* tombstoned vertex, the second endpoint of the collapsed edge, and 2 live faces
C14_Witness ==
  /\ input = <<"tetra", 0>>
  /\ totalCollapses = 1
  /\ lastPop.kind = "collapse"
  /\ Tombstoned(vertices) = {edges[lastPop.edgeIndex].v2}
  /\ ~vertices[edges[lastPop.edgeIndex].v1].isDeleted
  /\ LiveFaces(faces) = 2

\* a loop iteration that popped a snapshot
PopStep == lastPop'.kind \in {"discard", "dirty", "collapse"} /\ tick' # tick

\* C15: the first snapshot popped after the lazy initialization costs no more
\* than the stored cost of any live edge at that moment
C15_FirstPopIsMinimum ==
  [][(lastPop.kind = "refill" /\ PopStep) =>
       \A i \in LiveEdges : RLe(lastPop'.cost, edges[i].cost)]_vars

\* C15 witness: the first pop of the first call has happened (it collapsed its
\* edge, nothing else was popped) and a live edge is stored at a greater cost
C15_Witness ==
  /\ calls = 1 /\ count = 1 /\ totalCollapses = 1
  /\ lastPop.kind = "collapse"
  /\ \E i \in LiveEdges : ~edges[i].isDirty /\ RLt(lastPop.cost, edges[i].cost)

\* the buffer entries emitted for face f
CornersOf(f) == {k \in DOMAIN renderData : renderData[k].face = f}

\* C16: the buffers filled by updateRenderData hold exactly three corners per
\* live face and none for a tombstoned face, and every corner was read from
\* an in-range vertex that is not tombstoned
C16_RenderSnapshot ==
  pc = "idle" =>
    /\ activeVertexCount = Len(renderData)
    /\ Len(renderData) = 3 * LiveFaces(faces)
    /\ \A f \in DOMAIN faces :
         Cardinality(CornersOf(f)) = IF faces[f].isDeleted THEN 0 ELSE 3
    /\ \A k \in DOMAIN renderData :
         /\ renderData[k].face \in DOMAIN faces
         /\ LiveVertex(renderData[k].vertex)
         /\ renderData[k].position = vertices[renderData[k].vertex].position

\* C16 witness: buffers refreshed after a collapse that tombstoned a face while
\* another face stays live
C16_Witness ==
  /\ pc = "idle"
  /\ totalCollapses >= 1
  /\ \E f \in DOMAIN faces : faces[f].isDeleted
  /\ LiveFaces(faces) >= 1
  /\ Len(renderData) = 3 * LiveFaces(faces)

\* the vertex quadrics after one more call of computeAllQuadrics on vs
Requadric(vs) == [i \in DOMAIN vs |-> computeAllQuadrics(vs, faces)[i].quadric]

\* C17: a second call of computeAllQuadrics leaves every quadric as the first
\* call set it, whatever mix of live and tombstoned faces the mesh holds; in
\* particular a call right after the one main makes changes nothing
C17_QuadricsIdempotent ==
  pc \notin {"start", "cost", "costed"} =>
    /\ Requadric(computeAllQuadrics(vertices, faces)) = Requadric(vertices)
    /\ pc = "quadrics" => computeAllQuadrics(vertices, faces) = vertices

\* C17 witness: a mesh with live and tombstoned faces on which a call changes
\* the quadrics and a second call changes nothing more
C17_Witness ==
  /\ pc = "idle"
  /\ \E f \in DOMAIN faces : faces[f].isDeleted
  /\ \E f \in DOMAIN faces : ~faces[f].isDeleted
  /\ computeAllQuadrics(vertices, faces) # vertices
  /\ computeAllQuadrics(computeAllQuadrics(vertices, faces), faces)
       = computeAllQuadrics(vertices, faces)

\* a meshSimplify call begins on an empty heap and a mesh without live edge
IdleCallBegins == pc = "idle" /\ pc' = "loop" /\ edgeQueue = EmptyBag /\ LiveEdges = {}

\* the first test of the while condition of such a call
IdleCallAtLoop == pc = "loop" /\ lastPop.kind = "refill" /\ edgeQueue = EmptyBag

\* C18: buildMesh on a stream of zero corners yields zero vertices, faces and
\* edges; a call of meshSimplify that finds the heap empty and no live edge
\* pushes nothing, collapses nothing, changes nothing of the mesh and returns
C18_EmptyIsNoOp ==
  [][/\ (input = <<"empty", 0>> /\ pc = "start") =>
          (pc' = "built" /\ Len(vertices') = 0 /\ Len(faces') = 0 /\ Len(edges') = 0)
     /\ IdleCallBegins =>
          (edgeQueue' = EmptyBag /\ UNCHANGED <<vertices, edges, faces, deletedVertices>>)
     /\ IdleCallAtLoop =>
          /\ pc' = "idle" /\ count' = 0
          /\ UNCHANGED <<vertices, edges, faces, deletedVertices, edgeQueue, totalCollapses>>]_vars

\* C18 witness: a call on the empty mesh has returned without a collapse
C18_Witness ==
  /\ input = <<"empty", 0>>
  /\ Len(vertices) = 0 /\ Len(faces) = 0 /\ Len(edges) = 0
  /\ pc = "idle" /\ calls >= 1 /\ lastPop.kind = "refill"
  /\ count = 0 /\ totalCollapses = 0 /\ edgeQueue = EmptyBag

\* the live edges whose endpoint pair, in either order, is that of snapshot s
LiveEdgesWithPair(es, s) ==
  {k \in DOMAIN es : ~es[k].isDeleted /\ EndpointPair(es[k]) = {s.v1, s.v2}}

\* no tombstoned edge stands before a live edge with the same endpoint pair
NoHiddenLiveEdge(es) ==
  \A i, j \in DOMAIN es :
    (i < j /\ es[i].isDeleted /\ ~es[j].isDeleted) => EndpointPair(es[i]) # EndpointPair(es[j])

\* C19: the scan returns the first index whose endpoints match the snapshot,
\* tombstoned or not; no tombstoned edge ever precedes a live edge with the
\* same pair, so a snapshot is discarded only when no live edge has its pair
C19_DiscardOnlyWithoutLiveEdge ==
  [][/\ NoHiddenLiveEdge(edges')
     /\ (lastPop'.kind = "discard" /\ tick' # tick) =>
          /\ lastPop'.edgeIndex = findEdge(edges, lastPop', 1)
          /\ \A i \in 1..(lastPop'.edgeIndex - 1) :
               EndpointPair(edges[i]) # {lastPop'.v1, lastPop'.v2}
          /\ LiveEdgesWithPair(edges, lastPop') = {}
     /\ (tick' # tick /\ pc = "loop" /\ edgeQueue # EmptyBag /\ lastPop'.kind # "discard") =>
          lastPop'.edgeIndex \in LiveEdgesWithPair(edges, lastPop')]_vars

\* C19 witness: a snapshot was discarded because the scan stopped at a
\* tombstoned edge with its endpoint pair, while live edges follow in the array
C19_Witness ==
  /\ lastPop.kind = "discard"
  /\ lastPop.edgeIndex # 0
  /\ edges[lastPop.edgeIndex].isDeleted
  /\ EndpointPair(edges[lastPop.edgeIndex]) = {lastPop.v1, lastPop.v2}
  /\ \E j \in LiveEdges : j > lastPop.edgeIndex
  /\ LiveEdgesWithPair(edges, lastPop) = {}

\* every live edge of es has a heap entry with its endpoint pair, in either order
AllLiveEdgesQueued(es, queue) ==
  \A i \in DOMAIN es :
    ~es[i].isDeleted => \E s \in BagToSet(queue) : {s.v1, s.v2} = EndpointPair(es[i])

\* a call of meshSimplify other than the first begins
LaterCallBegins == pc = "idle" /\ pc' = "loop" /\ calls >= 1

\* C20: the refill at the top of meshSimplify pushes on the first call only:
\* a later call finds the heap non-empty, or empty with no live edge left, and
\* from the first call on every live edge has a heap entry with its current
\* endpoint pair at every call boundary
C20_RefillOnlyOnFirstCall ==
  [][/\ LaterCallBegins =>
          /\ edgeQueue # EmptyBag \/ LiveEdges = {}
          /\ edgeQueue' = edgeQueue /\ edges' = edges
     /\ (calls' >= 1 /\ pc' = "idle") => AllLiveEdgesQueued(edges', edgeQueue')]_vars

\* C20 witness: a later call has begun on a heap left by earlier collapses,
\* with live edges in the mesh and no refill
C20_Witness ==
  /\ pc = "loop" /\ calls >= 2
  /\ lastPop.kind = "none"
  /\ totalCollapses >= 1
  /\ LiveEdges # {}
  /\ AllLiveEdgesQueued(edges, edgeQueue)

\* the heap entries, as snapshots, with the endpoint pair of edge e in either order
EntriesOf(e) == {s \in BagToSet(edgeQueue) : {s.v1, s.v2} = EndpointPair(e)}

\* how many heap entries with the endpoint pair of e carry its stored cost
CurrentEntries(e) ==
  IF {s \in EntriesOf(e) : s.cost = e.cost} = {} THEN 0
  ELSE BagCardinality([s \in {x \in EntriesOf(e) : x.cost = e.cost} |-> CopiesIn(s, edgeQueue)])

\* C21: of the heap entries with the endpoint pair of a live edge at most one
\* carries the stored cost of that edge
C21_OneCurrentEntry ==
  \A i \in LiveEdges : CurrentEntries(edges[i]) <= 1

\* the live edges of es with an endpoint at vertex v
IncidentLive(es, v) == {i \in DOMAIN es : ~es[i].isDeleted /\ v \in EndpointPair(es[i])}

\* the popped snapshot recorded in a lastPop value
PoppedSnapshot(p) == [v1 |-> p.v1, v2 |-> p.v2, cost |-> p.cost]

\* C22: right after the handling of a collapse every live edge at the
\* surviving vertex v1 is dirty, stores the cost computeCost gives on the
\* rebuilt quadric of v1 and has that record pushed as a snapshot; every other
\* live edge keeps its record and nothing is pushed for it
C22_CollapseMarksAndPushes ==
  [][CollapseStep =>
       LET v1 == edges[lastPop'.edgeIndex].v1
       IN  /\ \A i \in IncidentLive(edges', v1) :
                /\ edges'[i].isDirty
                /\ edges'[i].cost = computeCost(edges'[i], vertices').cost
                /\ CopiesIn(Snapshot(edges'[i]), edgeQueue') >= 1
           /\ \A i \in LiveEdges \ IncidentLive(edges', v1) :
                ~edges'[i].isDeleted => edges'[i] = edges[i]
           /\ \A s \in BagToSet(edgeQueue) \cup BagToSet(edgeQueue') :
                CopiesIn(s, edgeQueue') =
                  CopiesIn(s, edgeQueue)
                    - (IF s = PoppedSnapshot(lastPop') THEN 1 ELSE 0)
                    + Cardinality({i \in IncidentLive(edges', v1) : Snapshot(edges'[i]) = s})]_vars

\* C22 witness: after a collapse the surviving vertex has dirty live edges
\* with their snapshots in the heap, and another live edge is clean
C22_Witness ==
  /\ lastPop.kind = "collapse"
  /\ IncidentLive(edges, edges[lastPop.edgeIndex].v1) # {}
  /\ \A i \in IncidentLive(edges, edges[lastPop.edgeIndex].v1) :
       edges[i].isDirty /\ CopiesIn(Snapshot(edges[i]), edgeQueue) >= 1
  /\ \E i \in LiveEdges : ~edges[i].isDirty

\* a loop iteration that took the dirty branch
DirtyStep == lastPop'.kind = "dirty" /\ tick' # tick

\* C23: a pop that matches a dirty live edge collapses nothing: the cost of
\* that edge is recomputed, its flag cleared and one snapshot of it pushed;
\* vertices, faces and every other edge record stay as they are
C23_DirtyPopRefreshes ==
  [][DirtyStep =>
       LET i == lastPop'.edgeIndex
       IN  /\ i \in LiveEdges /\ edges[i].isDirty
           /\ EndpointPair(edges[i]) = {lastPop'.v1, lastPop'.v2}
           /\ edges'[i] = [computeCost(edges[i], vertices) EXCEPT !.isDirty = FALSE]
           /\ \A k \in DOMAIN edges : k # i => edges'[k] = edges[k]
           /\ DOMAIN edges' = DOMAIN edges
           /\ edgeQueue' (+) SetToBag({PoppedSnapshot(lastPop')})
                = edgeQueue (+) SetToBag({Snapshot(edges'[i])})
           /\ UNCHANGED <<vertices, faces, deletedVertices, totalCollapses, count>>]_vars

\* C23 witness: the dirty branch has run in a call that has not collapsed yet;
\* its edge is live and clean with its snapshot in the heap
C23_Witness ==
  /\ lastPop.kind = "dirty"
  /\ ~edges[lastPop.edgeIndex].isDirty
  /\ ~edges[lastPop.edgeIndex].isDeleted
  /\ CopiesIn(Snapshot(edges[lastPop.edgeIndex]), edgeQueue) >= 1
  /\ count = 0

\* the stored cost and optimalPosition of edge e are those computeCost gives
\* on the vertex array vs
CostCurrent(e, vs) ==
  \E c \in {computeCost(e, vs)} : c.cost = e.cost /\ c.optimalPosition = e.optimalPosition

\* C24: from the lazy initialization on, between pops, every live edge, dirty
\* or not, stores the cost and optimalPosition computeCost gives on the
\* current quadrics and positions of its endpoints, so the recomputation of
\* the dirty branch changes neither
C24_StoredCostsCurrent ==
  [][/\ (calls' >= 1 /\ pc' \in {"loop", "idle"}) =>
          \A i \in DOMAIN edges' : ~edges'[i].isDeleted => CostCurrent(edges'[i], vertices')
     /\ DirtyStep =>
          /\ edges'[lastPop'.edgeIndex].cost = edges[lastPop'.edgeIndex].cost
          /\ edges'[lastPop'.edgeIndex].optimalPosition
               = edges[lastPop'.edgeIndex].optimalPosition]_vars

\* C24 witness: after a collapse the dirty branch has run on an edge of the
\* surviving vertex and left it with the cost it had, which is current
C24_Witness ==
  /\ lastPop.kind = "dirty"
  /\ totalCollapses >= 1
  /\ lastPop.liveCost = edges[lastPop.edgeIndex].cost
  /\ CostCurrent(edges[lastPop.edgeIndex], vertices)
  /\ \E i \in LiveEdges : edges[i].isDirty /\ CostCurrent(edges[i], vertices)

\* the live faces of fs have pairwise distinct vertex indices
DistinctCorners(fs) ==
  \A f \in DOMAIN fs :
    ~fs[f].isDeleted => Cardinality({fs[f].v1, fs[f].v2, fs[f].v3}) = 3

\* C25: on a mesh whose live faces have pairwise distinct vertex indices
\* computeAllQuadrics gives every vertex the quadric computeQuadric gives it,
\* the sum of the fundamental quadrics of the live faces that contain it, and
\* agrees with initializeQuadrics on every vertex initializeQuadrics visits
C25_AllQuadricsMatchPerVertex ==
  (pc \in {"built", "quadrics", "idle", "loop"} /\ DistinctCorners(faces)) =>
    \E all \in {computeAllQuadrics(vertices, faces)} :
      \E each \in {initializeQuadrics(vertices, faces)} :
        \A i \in DOMAIN vertices :
          /\ all[i].quadric = computeQuadric(i, vertices, faces)[i].quadric
          /\ all[i].quadric = IncidentQuadric(i)
          /\ ~vertices[i].isDeleted => all[i] = each[i]

\* C25 witness: a mesh with a tombstoned face on which both computations give
\* a live vertex the same quadric, different from the one it stores
C25_Witness ==
  /\ pc = "idle"
  /\ DistinctCorners(faces)
  /\ \E f \in DOMAIN faces : faces[f].isDeleted
  /\ \E i \in DOMAIN vertices :
       /\ ~vertices[i].isDeleted
       /\ vertices[i].quadric # IncidentQuadric(i)
       /\ IncidentQuadric(i) # ZeroMat
       /\ computeAllQuadrics(vertices, faces)[i].quadric
            = computeQuadric(i, vertices, faces)[i].quadric

\* Step 1 of buildMesh on the stream in: unique vertices and vertexMapping
Welded(in) == weld(in, 1, Len(in), [vertices |-> <<>>, cells |-> <<>>, vertexMapping |-> <<>>])

\* corner k of the stream in was mapped to a vertex created for an earlier
\* corner, which lies in the grid cell of corner k closer than EPSILON to it
Reused(in, w, k) ==
  /\ \E j \in 1..(k - 1) : w.vertexMapping[j] = w.vertexMapping[k]
  /\ cellKey(w.vertices[w.vertexMapping[k]].position) = cellKey(in[k].pos)
  /\ closerThanEpsilon(in[k].pos, w.vertices[w.vertexMapping[k]].position)

\* corner k was mapped to a vertex appended for it, which carries its attributes
Appended(in, w, k) ==
  /\ \A j \in 1..(k - 1) : w.vertexMapping[j] < w.vertexMapping[k]
  /\ w.vertices[w.vertexMapping[k]].position = in[k].pos
  /\ w.vertices[w.vertexMapping[k]].normal = in[k].normal
  /\ w.vertices[w.vertexMapping[k]].texCoord = in[k].uv

\* the first corner of the stream mapped to vertex m
FirstCornerOf(w, m) ==
  CHOOSE k \in DOMAIN w.vertexMapping :
    w.vertexMapping[k] = m /\ \A j \in 1..(k - 1) : w.vertexMapping[j] # m

\* C26: buildMesh maps every corner either to an earlier vertex of its own
\* grid cell closer than EPSILON or to a new vertex with the corner's
\* position, normal and uv; two unique vertices of one cell are never closer
\* than EPSILON, and a unique vertex carries the attributes of the first
\* corner mapped to it
C26_WeldingByCell ==
  pc = "built" =>
    \E in \in {InputStream(input)} :
      \E w \in {Welded(in)} :
        /\ vertices = w.vertices
        /\ Len(w.vertexMapping) = Len(in)
        /\ \A k \in DOMAIN in :
             /\ w.vertexMapping[k] \in DOMAIN vertices
             /\ Reused(in, w, k) \/ Appended(in, w, k)
        /\ \A a, b \in DOMAIN vertices :
             (a # b /\ cellKey(vertices[a].position) = cellKey(vertices[b].position))
               => ~closerThanEpsilon(vertices[a].position, vertices[b].position)
        /\ \A m \in DOMAIN vertices :
             /\ m \in {w.vertexMapping[k] : k \in DOMAIN in}
             /\ vertices[m].position = in[FirstCornerOf(w, m)].pos
             /\ vertices[m].normal = in[FirstCornerOf(w, m)].normal
             /\ vertices[m].texCoord = in[FirstCornerOf(w, m)].uv

\* C26 witness: a later corner with another normal and uv was welded to the
\* vertex of the first corner, which kept its attributes, and a corner closer
\* than EPSILON to that vertex but in the next grid cell got its own vertex
C26_Witness ==
  /\ pc = "built"
  /\ input[1] = "weld"
  /\ Len(vertices) = 2
  /\ \E in \in {InputStream(input)} :
       \E w \in {Welded(in)} :
         /\ w.vertexMapping[2] = 1
         /\ in[2].pos # in[1].pos /\ in[2].normal # in[1].normal
         /\ vertices[1].normal = in[1].normal /\ vertices[1].texCoord = in[1].uv
         /\ w.vertexMapping[3] = 2
         /\ closerThanEpsilon(in[3].pos, vertices[1].position)
         /\ cellKey(in[3].pos) # cellKey(vertices[1].position)

\* the unordered vertex pairs that are a side of a face of fs
FaceSides(fs) ==
  UNION {{{fs[f].v1, fs[f].v2}, {fs[f].v2, fs[f].v3}, {fs[f].v3, fs[f].v1}} : f \in DOMAIN fs}

\* C27: right after buildMesh the edge list holds exactly one edge per
\* unordered vertex pair that is a side of an emitted face and nothing else,
\* each edge with v1 < v2, cost 0, not dirty and not tombstoned
C27_BuiltEdges ==
  pc = "built" =>
    /\ {EndpointPair(edges[i]) : i \in DOMAIN edges} = FaceSides(faces)
    /\ Cardinality(FaceSides(faces)) = Len(edges)
    /\ \A i \in DOMAIN edges :
         /\ edges[i].v1 < edges[i].v2
         /\ edges[i].cost = R0
         /\ ~edges[i].isDirty
         /\ ~edges[i].isDeleted

\* C27 witness: the closed tetrahedron built, 6 edges for the 6 sides of its
\* 4 faces, each side shared by two faces
C27_Witness ==
  /\ pc = "built"
  /\ input = <<"tetra", 0>>
  /\ Len(faces) = 4
  /\ Len(edges) = 6
  /\ Cardinality(FaceSides(faces)) = 6

\* the plane of face f of fs as Face::computeNormal gives it on the positions in vs
PlaneFrom(vs, fs, f) ==
  computeNormal(vs[fs[f].v1].position, vs[fs[f].v2].position, vs[fs[f].v3].position)

\* C28: buildMesh gives every face the plane of its three vertex positions,
\* and no later step changes the planeEquation (which holds the normal) of a
\* face, live or tombstoned, or the normal of a vertex
C28_PlanesFrozen ==
  [][/\ pc = "start" =>
          \A f \in DOMAIN faces' : faces'[f].planeEquation = PlaneFrom(vertices', faces', f)
     /\ pc \in {"built", "quadrics", "idle", "loop"} =>
          /\ DOMAIN faces' = DOMAIN faces /\ DOMAIN vertices' = DOMAIN vertices
          /\ \A f \in DOMAIN faces : faces'[f].planeEquation = faces[f].planeEquation
          /\ \A i \in DOMAIN vertices : vertices'[i].normal = vertices[i].normal]_vars

\* C28 witness: after a collapse a live face has a moved vertex and carries a
\* plane that is not the plane of its present vertex positions
C28_Witness ==
  /\ totalCollapses >= 1
  /\ \E f \in DOMAIN faces :
       /\ ~faces[f].isDeleted
       /\ faces[f].planeEquation # PlaneFrom(vertices, faces, f)

\* the array after has the length of the array before, no tombstone of before
\* is reset, and a record tombstoned before is found unchanged at its index
KeptInPlace(before, after) ==
  /\ Len(after) = Len(before)
  /\ \A i \in DOMAIN before : before[i].isDeleted => after[i] = before[i]

\* C29: after buildMesh no step changes the length of the vertex, edge or
\* face array or resets a tombstone; tombstoned records stay as they are at
\* their index, and every face and vertex keeps its build-time plane and
\* normal at its index
C29_NoRenumbering ==
  [][(pc \in {"built", "quadrics", "idle", "loop"}) =>
       /\ KeptInPlace(vertices, vertices')
       /\ KeptInPlace(edges, edges')
       /\ KeptInPlace(faces, faces')
       /\ \A f \in DOMAIN faces : faces'[f].planeEquation = faces[f].planeEquation
       /\ \A i \in DOMAIN vertices : vertices'[i].normal = vertices[i].normal]_vars

\* C29 witness: several collapses have left tombstoned vertices, edges and
\* faces in arrays that still hold every record
C29_Witness ==
  /\ totalCollapses >= 2
  /\ Len(vertices) = originalVertexCount
  /\ Cardinality(Tombstoned(vertices)) >= 2
  /\ \E i \in DOMAIN edges : edges[i].isDeleted
  /\ \E f \in DOMAIN faces : faces[f].isDeleted
  /\ Len(faces) > LiveFaces(faces)

\* C30: on each collapse the uv and color of the surviving vertex are those
\* of v1 mixed toward those of v2 with t = |optimal - v1_pre| / |v2_pre - v1_pre|
\* clamped to [0, 1], v1_pre and v2_pre being the endpoint positions before
\* the collapse, and t = 1/2 only when the two are closer than 1e-10
C30_InterpolatesFromPreCollapse ==
  [][CollapseStep =>
       LET e == edges[lastPop'.edgeIndex]
           t == interpolationT(vertices[e.v1].position, vertices[e.v2].position,
                               e.optimalPosition)
       IN  /\ vertices'[e.v1].texCoord =
                mix(vertices[e.v1].texCoord, vertices[e.v2].texCoord, t)
           /\ vertices'[e.v1].color =
                mix(vertices[e.v1].color, vertices[e.v2].color, t)]_vars

=============================================================================
